---------------------------- MODULE Spec2Model ----------------------------
(***************************************************************************)
(* A model of the indicator layer of stock-scanner (src/src/indicators.py):*)
(* calculate_average_price, calculate_bollinger_bands, get_latest_close,   *)
(* calculate_rsi and scan_for_opportunities over an in-memory table of     *)
(* price rows.                                                             *)
(*                                                                         *)
(* Numbers.  Python floats are binary floating-point numbers; every        *)
(* arithmetic operation returns the exact result rounded to the nearest    *)
(* representable value (ties to even).  The model keeps that: a float is   *)
(* the rational [n, d] it denotes, and every operation rounds its exact    *)
(* result to MantissaBits significant bits.  The exponent is unbounded     *)
(* (no overflow, underflow, infinities or NaN).                            *)
(*                                                                         *)
(* Rows.  A row is a dict with optional keys "symbol", "close", "date".    *)
(* symbol = 0 stands for a row without the key, symbols 1, 2, ... are     *)
(* strings in lexicographic order.  close and date are [k, v] with         *)
(* k = "absent" (no such key), "text" (a string that does not parse) or,   *)
(* for a close, "num" (text denoting the number v) and, for a date, "iso"  *)
(* (an ISO-8601 string; v orders them, both as strings and as datetimes).  *)
(* ISO dates are calendar dates in one format and without UTC offset, so   *)
(* any two of them compare.  A "text" date is a string such as "n/a" that  *)
(* sorts after every ISO string.                                           *)
(***************************************************************************)
EXTENDS Integers, Sequences, FiniteSets, TLC

VARIABLES data, op, args, ret, locals

vars == <<data, op, args, ret, locals>>

(***************************************************************************)
(* Bounds of the model.                                                    *)
(***************************************************************************)
MantissaBits == 5
MaxRows == 3
MaxScanRows == 4
MaxSortRows == 4
MaxPeriod == 2

Min(a, b) == IF a <= b THEN a ELSE b
Max(a, b) == IF a >= b THEN a ELSE b
Abs(a) == IF a < 0 THEN -a ELSE a
Pow2(k) == 2 ^ k

(* The element of a one-element set: The({e(v) : v \in {x}}) is e(x) with x
   evaluated once. *)
The(S) == CHOOSE r \in S : TRUE

(* The number of bits of a >= 0, and the number of trailing zero bits of a > 0 *)
BitLen(a) == CHOOSE k \in 0 .. 30 : a < Pow2(k) /\ \A j \in 0 .. k - 1 : a >= Pow2(j)
TrailingZeros(a) == CHOOSE k \in 0 .. 30 : a % Pow2(k) = 0 /\ a % Pow2(k + 1) # 0

(***************************************************************************)
(* A float is the rational [n, d] it denotes: d is a power of two and n is *)
(* odd unless d = 1.  Float(m, e) is m * 2^e.                              *)
(***************************************************************************)
FloatAt(m, e, z) == [n |-> m \div Pow2(z), d |-> Pow2(0 - e - z)]

Float(m, e) ==
    IF m = 0 THEN [n |-> 0, d |-> 1]
    ELSE IF e >= 0 THEN [n |-> m * Pow2(e), d |-> 1]
    ELSE CHOOSE r \in {FloatAt(m, e, z) : z \in {Min(TrailingZeros(Abs(m)), 0 - e)}} : TRUE

FromInt(i) == [n |-> i, d |-> 1]
Zero == FromInt(0)
RNeg(x) == [n |-> 0 - x.n, d |-> x.d]
RLt(x, y) == x.n * y.d < y.n * x.d
RLe(x, y) == x.n * y.d <= y.n * x.d

(***************************************************************************)
(* Rounding a / d (a, d > 0) to the nearest float, ties to even.  The      *)
(* exponent e is the one with 2^(MantissaBits-1) <= a / (d * 2^e) <        *)
(* 2^MantissaBits; the mantissa is that quotient rounded to an integer.    *)
(***************************************************************************)
ScaledNum(a, e) == IF e >= 0 THEN a ELSE a * Pow2(0 - e)
ScaledDen(d, e) == IF e >= 0 THEN d * Pow2(e) ELSE d

Exponent(a, d) ==
    CHOOSE e \in {BitLen(a) - BitLen(d) - MantissaBits + i : i \in 0 .. 1} :
        /\ Pow2(MantissaBits - 1) * ScaledDen(d, e) <= ScaledNum(a, e)
        /\ ScaledNum(a, e) < Pow2(MantissaBits) * ScaledDen(d, e)

NearestAt(num, den, e) ==
    LET m    == num \div den
        twoR == 2 * (num % den)
        up   == twoR > den \/ (twoR = den /\ m % 2 = 1)
    IN  Float(IF up THEN m + 1 ELSE m, e)

Nearest(a, d) ==
    CHOOSE r \in {NearestAt(ScaledNum(a, e), ScaledDen(d, e), e) : e \in {Exponent(a, d)}} : TRUE

RoundAt(n, d) ==
    IF n = 0 THEN Zero
    ELSE IF (n > 0) = (d > 0) THEN Nearest(Abs(n), Abs(d))
    ELSE RNeg(Nearest(Abs(n), Abs(d)))

(* the float nearest to n / d; the arguments are evaluated once *)
RoundQ(n, d) == CHOOSE r \in {RoundAt(p, q) : p \in {n}, q \in {d}} : TRUE

Round(x) == CHOOSE r \in {RoundAt(a.n, a.d) : a \in {x}} : TRUE

FAdd(x, y) == CHOOSE r \in {RoundAt(a.n * b.d + b.n * a.d, a.d * b.d) : a \in {x}, b \in {y}} : TRUE
FSub(x, y) == CHOOSE r \in {RoundAt(a.n * b.d - b.n * a.d, a.d * b.d) : a \in {x}, b \in {y}} : TRUE
FMul(x, y) == CHOOSE r \in {RoundAt(a.n * b.n, a.d * b.d) : a \in {x}, b \in {y}} : TRUE
FDiv(x, y) == CHOOSE r \in {RoundAt(a.n * b.d, a.d * b.n) : a \in {x}, b \in {y}} : TRUE

(***************************************************************************)
(* math.sqrt of a float n / d > 0: the float nearest to the real square    *)
(* root.  With 4^(MantissaBits-1) <= n / (d * 4^e) < 4^MantissaBits the    *)
(* root of that quotient lies in [m, m+1) for one m of MantissaBits bits,  *)
(* and it rounds up when the quotient exceeds (m + 1/2)^2 (a tie cannot be *)
(* the root of a float).                                                   *)
(***************************************************************************)
SqrtExponent(n, d) ==
    CHOOSE e \in {(BitLen(n) - BitLen(d) - 2 * MantissaBits) \div 2 + i : i \in 0 .. 2} :
        /\ Pow2(2 * MantissaBits - 2) * ScaledDen(d, 2 * e) <= ScaledNum(n, 2 * e)
        /\ ScaledNum(n, 2 * e) < Pow2(2 * MantissaBits) * ScaledDen(d, 2 * e)

SqrtAt(num, den, e) ==
    LET m == CHOOSE k \in Pow2(MantissaBits - 1) .. Pow2(MantissaBits) - 1 :
                 k * k * den <= num /\ num < (k + 1) * (k + 1) * den
        up == (4 * m * m + 4 * m + 1) * den < 4 * num
    IN  Float(IF up THEN m + 1 ELSE m, e)

SqrtOf(n, d) ==
    IF n = 0 THEN Zero
    ELSE CHOOSE r \in {SqrtAt(ScaledNum(n, 2 * e), ScaledDen(d, 2 * e), e) :
                       e \in {SqrtExponent(n, d)}} : TRUE

FSqrt(x) == CHOOSE r \in {SqrtOf(a.n, a.d) : a \in {x}} : TRUE

(***************************************************************************)
(* Rows and results.                                                       *)
(***************************************************************************)
Absent == [k |-> "absent", v |-> 0]
Text == [k |-> "text", v |-> 0]
Num(x) == [k |-> "num", v |-> x]
Iso(x) == [k |-> "iso", v |-> x]

Return(v) == [kind |-> "return", val |-> v]
Raise(e) == [kind |-> "raise", val |-> e]
NoLocals == [rows |-> <<>>, sorted |-> FALSE, prices |-> <<>>]

(***************************************************************************)
(* Python's list operations: s[start:] and s[i], with negative indices     *)
(* counted from the end.  Indices are Python's (from 0).                   *)
(***************************************************************************)
PySliceFrom(s, start) ==
    LET n  == Len(s)
        lo == IF start < 0 THEN Max(n + start, 0) ELSE Min(start, n)
    IN  SubSeq(s, lo + 1, n)

PyIndexOk(s, i) == 0 - Len(s) <= i /\ i < Len(s)
PyIndex(s, i) == IF i >= 0 THEN s[i + 1] ELSE s[Len(s) + i + 1]

(* sum(s): from 0, left to right *)
FSum(s) ==
    LET acc[i \in 0 .. Len(s)] == IF i = 0 THEN Zero ELSE FAdd(acc[i - 1], s[i])
    IN  acc[Len(s)]

(***************************************************************************)
(* entry.get("symbol") == symbol and "close" in entry; float(entry["close"])*)
(***************************************************************************)
Matches(entry, symbol) == entry.symbol = symbol /\ entry.close.k # "absent"
CanParse(c) == c.k = "num"
ParseFloat(c) == RoundQ(c.v, 1)

(* The loop of lines 10-17 (and 33-39): the parseable closes of the rows of
   `symbol`, in the order of `rows`. *)
Prices(symbol, rows) ==
    LET acc[i \in 0 .. Len(rows)] ==
            IF i = 0 THEN <<>>
            ELSE IF Matches(rows[i], symbol) /\ CanParse(rows[i].close)
                 THEN Append(acc[i - 1], ParseFloat(rows[i].close))
                 ELSE acc[i - 1]
    IN  acc[Len(rows)]

(* a variant of lines 19-24 that divides by the number of closes in the
   window *)
AverageOfPricesByCount(prices, period) ==
    IF prices = <<>> THEN Return(Zero)
    ELSE IF period = 0 THEN Raise("ZeroDivisionError")
    ELSE The({Return(FDiv(FSum(recent_prices), FromInt(Len(recent_prices)))) :
              recent_prices \in {PySliceFrom(prices, 0 - period)}})

(* lines 19-24 *)
AverageOfPrices(prices, period) ==
    IF prices = <<>> THEN Return(Zero)
    ELSE IF period = 0 THEN Raise("ZeroDivisionError")
    ELSE Return(FDiv(FSum(PySliceFrom(prices, 0 - period)), FromInt(period)))

calculate_average_price(symbol, table, period) ==
    The({AverageOfPrices(prices, period) : prices \in {Prices(symbol, table)}})

(* sum((p - avg) ** 2 for p in recent_prices) *)
SumSquares(s, avg) ==
    LET acc[i \in 0 .. Len(s)] ==
            IF i = 0 THEN Zero
            ELSE The({FAdd(acc[i - 1], FMul(dev, dev)) : dev \in {FSub(s[i], avg)}})
    IN  acc[Len(s)]

BandMultiplier == 2

(* a variant of lines 49-53 whose bands lie one deviation from the average *)
BandsOneDeviation(avg, std_dev) ==
    [average |-> avg, std_dev |-> std_dev,
     upper |-> FAdd(avg, std_dev), lower |-> FSub(avg, std_dev)]

(* lines 49-53 *)
Bands(avg, std_dev) ==
    The({[average |-> avg, std_dev |-> std_dev,
          upper |-> FAdd(avg, band_width), lower |-> FSub(avg, band_width)] :
         band_width \in {FMul(FromInt(BandMultiplier), std_dev)}})

(* lines 47-53, math.sqrt raising ValueError below zero *)
BandsOfVariance(avg, variance) ==
    IF variance.n < 0 THEN Raise("ValueError")
    ELSE The({Return(Bands(avg, std_dev)) : std_dev \in {FSqrt(variance)}})

(* lines 46-47 *)
BandsOfAverage(recent_prices, avg, period) ==
    The({BandsOfVariance(avg, variance) :
         variance \in {FDiv(SumSquares(recent_prices, avg), FromInt(period))}})

(* lines 41-53 *)
BandsOfPrices(prices, period) ==
    IF prices = <<>> THEN Return(Bands(Zero, Zero))
    ELSE IF period = 0 THEN Raise("ZeroDivisionError")
    ELSE The({BandsOfAverage(recent_prices, FDiv(FSum(recent_prices), FromInt(period)), period) :
              recent_prices \in {PySliceFrom(prices, 0 - period)}})

calculate_bollinger_bands(symbol, table, period) ==
    The({BandsOfPrices(prices, period) : prices \in {Prices(symbol, table)}})

(***************************************************************************)
(* get_latest_close: the loop of lines 62-76 keeps dated_entries, a list   *)
(* of (dt, close), and last_price (None is modelled by has_last = FALSE).  *)
(***************************************************************************)
LatestStep(prev, entry, symbol) ==
    IF ~(Matches(entry, symbol) /\ CanParse(entry.close)) THEN prev
    ELSE The({[dated_entries |->
                   IF entry.date.k = "iso"
                   THEN Append(prev.dated_entries, <<entry.date.v, close>>)
                   ELSE prev.dated_entries,
               has_last |-> TRUE,
               last_price |-> close] : close \in {ParseFloat(entry.close)}})

LatestLoop(symbol, table) ==
    LET st[i \in 0 .. Len(table)] ==
            IF i = 0 THEN [dated_entries |-> <<>>, has_last |-> FALSE, last_price |-> Zero]
            ELSE The({LatestStep(prev, table[i], symbol) : prev \in {st[i - 1]}})
    IN  st[Len(table)]

(* max(dated_entries, key=lambda x: x[0]): the first entry with the largest key *)
PyMaxByDate(entries) ==
    LET i == CHOOSE j \in 1 .. Len(entries) :
                 /\ \A k \in 1 .. Len(entries) : entries[k][1] <= entries[j][1]
                 /\ \A k \in 1 .. j - 1 : entries[k][1] < entries[j][1]
    IN  entries[i]

(* a variant of lines 78-85 that never looks at the dates *)
LatestOfLastRow(st) == IF st.has_last THEN st.last_price ELSE Zero

(* lines 78-85 *)
LatestOf(st) ==
    IF st.dated_entries # <<>> THEN PyMaxByDate(st.dated_entries)[2]
    ELSE IF st.has_last THEN st.last_price
    ELSE Zero

get_latest_close(symbol, table) == The({LatestOf(st) : st \in {LatestLoop(symbol, table)}})

(***************************************************************************)
(* rows.sort(key=lambda x: x.get("date")) inside try/except (lines         *)
(* 109-112).  The key of a row is None when it has no date and a string    *)
(* otherwise; comparing None with anything raises TypeError.  CPython's    *)
(* list.sort, for a list this short, first takes the run the list starts   *)
(* with (count_run) and then inserts the remaining elements one by one     *)
(* into the sorted prefix (binary insertion, to the right of equal keys).  *)
(* When a comparison raises, the list keeps what was done so far: nothing  *)
(* when the initial run reaches the first None key, the sorted prefix      *)
(* before the first None key followed by the untouched rest otherwise.     *)
(***************************************************************************)
KeyIsNone(entry) == entry.date.k = "absent"

(* a < b for two string keys *)
KeyLt(a, b) ==
    IF a.date.k = "iso" /\ b.date.k = "iso" THEN a.date.v < b.date.v
    ELSE a.date.k = "iso" /\ b.date.k = "text"

InsertAt(sorted, x, at) ==
    SubSeq(sorted, 1, at - 1) \o <<x>> \o SubSeq(sorted, at, Len(sorted))

FirstLater(sorted, x) ==
    LET later == {j \in 1 .. Len(sorted) : KeyLt(x, sorted[j])}
    IN  IF later = {} THEN Len(sorted) + 1 ELSE CHOOSE j \in later : \A k \in later : j <= k

InsertRight(sorted, x) ==
    The({InsertAt(s, x, FirstLater(s, x)) : s \in {sorted}})

StableSort(rows) ==
    LET acc[i \in 0 .. Len(rows)] ==
            IF i = 0 THEN <<>> ELSE InsertRight(acc[i - 1], rows[i])
    IN  acc[Len(rows)]

(* Whether count_run's initial run ends before index `stop` *)
RunEndsBefore(rows, stop) ==
    \E i \in 3 .. stop - 1 :
        IF KeyLt(rows[2], rows[1])
        THEN ~KeyLt(rows[i], rows[i - 1])
        ELSE KeyLt(rows[i], rows[i - 1])

FirstNone(rows) ==
    CHOOSE i \in 1 .. Len(rows) : KeyIsNone(rows[i]) /\ \A j \in 1 .. i - 1 : ~KeyIsNone(rows[j])

ListSortFailed(rows, first) ==
    IF first >= 3 /\ RunEndsBefore(rows, first)
    THEN [ok |-> FALSE,
          rows |-> StableSort(SubSeq(rows, 1, first - 1)) \o SubSeq(rows, first, Len(rows))]
    ELSE [ok |-> FALSE, rows |-> rows]

ListSort(rows) ==
    IF Len(rows) <= 1 \/ \A i \in 1 .. Len(rows) : ~KeyIsNone(rows[i])
    THEN [ok |-> TRUE, rows |-> StableSort(rows)]
    ELSE The({ListSortFailed(rows, first) : first \in {FirstNone(rows)}})

(* a variant of line 104 that takes the caller's list itself *)
RsiRowsAliased(symbol, table) == [fresh |-> FALSE, rows |-> table]

(***************************************************************************)
(* calculate_rsi.  RsiRows is the list comprehension of line 104: a new    *)
(* list (fresh), so that sorting it leaves the caller's list alone.        *)
(***************************************************************************)
RsiRows(symbol, table) ==
    LET acc[i \in 0 .. Len(table)] ==
            IF i = 0 THEN <<>>
            ELSE IF Matches(table[i], symbol) THEN Append(acc[i - 1], table[i])
                 ELSE acc[i - 1]
    IN  [fresh |-> TRUE, rows |-> acc[Len(table)]]

(* lines 116-120 *)
RsiPrices(rows) ==
    LET acc[i \in 0 .. Len(rows)] ==
            IF i = 0 THEN <<>>
            ELSE IF CanParse(rows[i].close)
                 THEN Append(acc[i - 1], ParseFloat(rows[i].close))
                 ELSE acc[i - 1]
    IN  acc[Len(rows)]

(* lines 131-137: one change appended to gains and losses, here their sums *)
SeedStep(prev, change) ==
    IF change.n > 0
    THEN [ok |-> TRUE, gains |-> FAdd(prev.gains, change), losses |-> FAdd(prev.losses, Zero)]
    ELSE [ok |-> TRUE, gains |-> FAdd(prev.gains, Zero), losses |-> FAdd(prev.losses, RNeg(change))]

(* lines 127-140: the sums of gains and of losses over range(1, period + 1);
   ok is FALSE once an index is out of range *)
SeedSums(recent_prices, period) ==
    LET acc[i \in 0 .. Max(period, 0)] ==
            IF i = 0 THEN [ok |-> TRUE, gains |-> Zero, losses |-> Zero]
            ELSE The({IF ~prev.ok \/ ~(PyIndexOk(recent_prices, i) /\ PyIndexOk(recent_prices, i - 1))
                      THEN [prev EXCEPT !.ok = FALSE]
                      ELSE The({SeedStep(prev, change) :
                                change \in {FSub(PyIndex(recent_prices, i),
                                                 PyIndex(recent_prices, i - 1))}}) :
                      prev \in {acc[i - 1]}})
    IN  acc[Max(period, 0)]

(* lines 145-149 *)
SmoothStep(avg, change, period) ==
    [ok |-> TRUE,
     avg_gain |-> FDiv(FAdd(FMul(avg.avg_gain, FromInt(period - 1)),
                            IF change.n > 0 THEN change ELSE Zero), FromInt(period)),
     avg_loss |-> FDiv(FAdd(FMul(avg.avg_loss, FromInt(period - 1)),
                            IF change.n < 0 THEN RNeg(change) ELSE Zero), FromInt(period))]

(* lines 143-149: the smoothing loop over range(period + 1, len(prices)),
   from the averages avg; ok is FALSE once an index is out of range *)
Smooth(prices, period, avg) ==
    LET n == Max(Len(prices) - (period + 1), 0)
        acc[k \in 0 .. n] ==
            IF k = 0 THEN avg
            ELSE The({IF ~prev.ok \/ ~(PyIndexOk(prices, i) /\ PyIndexOk(prices, i - 1))
                      THEN [prev EXCEPT !.ok = FALSE]
                      ELSE The({SmoothStep(prev, change, period) :
                                change \in {FSub(PyIndex(prices, i), PyIndex(prices, i - 1))}}) :
                      prev \in {acc[k - 1]}, i \in {period + k}})
    IN  acc[n]

(* line 127: the index in prices of recent_prices[0] *)
SeedWindowStart(prices, period) ==
    Len(prices) - Len(PySliceFrom(prices, 0 - (period + 1)))

(* lines 130-131: the indices i of prices whose change prices[i] - prices[i - 1]
   the seed loop reads, as recent_prices[i] - recent_prices[i - 1] *)
SeedChanges(prices, period) ==
    {SeedWindowStart(prices, period) + i : i \in 1 .. period}

(* lines 143-144: the indices i whose change prices[i] - prices[i - 1] the
   smoothing loop reads *)
SmoothChanges(prices, period) == period + 1 .. Len(prices) - 1

Hundred == 100

(* lines 158-160 *)
RsiOfRs(rs) ==
    The({IF denominator = Zero THEN Raise("ZeroDivisionError")
         ELSE Return(FSub(FromInt(Hundred), FDiv(FromInt(Hundred), denominator))) :
         denominator \in {FAdd(FromInt(1), rs)}})

(* a variant of lines 152-160 without the guard on avg_loss *)
FinalRsiUnguarded(avg_gain, avg_loss) ==
    IF avg_loss = Zero THEN Raise("ZeroDivisionError")
    ELSE RsiOfRs(FDiv(avg_gain, avg_loss))

(* lines 152-160 *)
FinalRsi(avg_gain, avg_loss) ==
    IF avg_loss = Zero
    THEN Return(IF avg_gain.n > 0 THEN FromInt(Hundred) ELSE Zero)
    ELSE RsiOfRs(FDiv(avg_gain, avg_loss))

(* lines 139-160 *)
RsiOfSeed(prices, period, seed) ==
    IF ~seed.ok THEN Raise("IndexError")
    ELSE
    The({IF ~sm.ok THEN Raise("IndexError") ELSE FinalRsi(sm.avg_gain, sm.avg_loss) :
         sm \in {Smooth(prices, period,
                        [ok |-> TRUE,
                         avg_gain |-> FDiv(seed.gains, FromInt(period)),
                         avg_loss |-> FDiv(seed.losses, FromInt(period))])}})

(* a variant of lines 122-160 that asks for period closes only *)
RsiOfPricesShort(prices, period) ==
    IF Len(prices) < period THEN Return(Zero)
    ELSE IF period = 0 THEN Raise("ZeroDivisionError")
    ELSE The({RsiOfSeed(prices, period, seed) :
              seed \in {SeedSums(PySliceFrom(prices, 0 - (period + 1)), period)}})

(* lines 122-160, on the cleaned closes *)
RsiOfPrices(prices, period) ==
    IF Len(prices) < period + 1 THEN Return(Zero)
    ELSE IF period = 0 THEN Raise("ZeroDivisionError")
    ELSE The({RsiOfSeed(prices, period, seed) :
              seed \in {SeedSums(PySliceFrom(prices, 0 - (period + 1)), period)}})

(* lines 114-160 *)
RsiOfSorted(table, period, sel, sorted) ==
    The({[data |-> IF sel.fresh THEN table ELSE sorted.rows,
          locals |-> [rows |-> sorted.rows, sorted |-> sorted.ok, prices |-> prices],
          ret |-> RsiOfPrices(prices, period)] : prices \in {RsiPrices(sorted.rows)}})

(* lines 105-160 *)
RsiOfRows(table, period, sel) ==
    IF sel.rows = <<>>
    THEN [data |-> table, locals |-> NoLocals, ret |-> Return(Zero)]
    ELSE The({RsiOfSorted(table, period, sel, sorted) : sorted \in {ListSort(sel.rows)}})

(* The whole call: the caller's list after it, the locals and the result. *)
calculate_rsi_run(symbol, table, period) ==
    The({RsiOfRows(table, period, sel) : sel \in {RsiRows(symbol, table)}})

calculate_rsi(symbol, table, period) == calculate_rsi_run(symbol, table, period).ret

(***************************************************************************)
(* scan_for_opportunities.                                                 *)
(***************************************************************************)
(* lines 180-183 *)
SymbolsOf(table) == {table[i].symbol : i \in {j \in 1 .. Len(table) : table[j].symbol # 0}}

(* a variant of sorted(symbols) in descending order *)
RECURSIVE SortedDescending(_)
SortedDescending(S) ==
    IF S = {} THEN <<>>
    ELSE The({<<greatest>> \o SortedDescending(S \ {greatest}) :
              greatest \in {CHOOSE x \in S : \A y \in S : y <= x}})

(* sorted(symbols) *)
RECURSIVE Sorted(_)
Sorted(S) ==
    IF S = {} THEN <<>>
    ELSE The({<<least>> \o Sorted(S \ {least}) :
              least \in {CHOOSE x \in S : \A y \in S : x <= y}})

RsiThreshold == 30

(* line 193 *)
Qualifies(latest_close, lower, rsi) ==
    /\ latest_close.n > 0
    /\ RLt(latest_close, lower)
    /\ RLt(rsi, FromInt(RsiThreshold))

(* lines 192-199 *)
ScanAppend(st, symbol, latest_close, bands, rsi) ==
    IF bands.kind = "raise" THEN [data |-> st.data, ret |-> bands]
    ELSE IF rsi.ret.kind = "raise" THEN [data |-> rsi.data, ret |-> rsi.ret]
    ELSE IF Qualifies(latest_close, bands.val.lower, rsi.ret.val)
    THEN [data |-> rsi.data,
          ret |-> Return(Append(st.ret.val,
                                [symbol |-> symbol, latest_close |-> latest_close,
                                 lower_band |-> bands.val.lower, rsi |-> rsi.ret.val]))]
    ELSE [data |-> rsi.data, ret |-> st.ret]

(* lines 187-199: one iteration, from the state [data, ret] before it *)
ScanStep(st, symbol, bollinger_bands_period, rsi_period) ==
    IF st.ret.kind = "raise" THEN st
    ELSE The({ScanAppend(st, symbol, latest_close, bands, rsi) :
              latest_close \in {get_latest_close(symbol, st.data)},
              bands \in {calculate_bollinger_bands(symbol, st.data, bollinger_bands_period)},
              rsi \in {calculate_rsi_run(symbol, st.data, rsi_period)}})

ScanLoop(table, order, bollinger_bands_period, rsi_period) ==
    LET st[i \in 0 .. Len(order)] ==
            IF i = 0 THEN [data |-> table, ret |-> Return(<<>>)]
            ELSE The({ScanStep(prev, order[i], bollinger_bands_period, rsi_period) :
                      prev \in {st[i - 1]}})
    IN  st[Len(order)]

scan_for_opportunities_run(table, bollinger_bands_period, rsi_period) ==
    The({ScanLoop(table, order, bollinger_bands_period, rsi_period) :
         order \in {Sorted(SymbolsOf(table))}})

scan_for_opportunities(table, bollinger_bands_period, rsi_period) ==
    scan_for_opportunities_run(table, bollinger_bands_period, rsi_period).ret

(***************************************************************************)
(* The state machine.  data is the table the caller holds.  While op is    *)
(* "idle" the caller may call one of the five functions on it; the call    *)
(* runs to completion in one step and leaves its name, arguments, result   *)
(* and (for calculate_rsi) locals in op, args, ret and locals.  Continue   *)
(* is the caller going on after the call, free to call again.              *)
(***************************************************************************)
Symbols == {1, 2}
Periods == 1 .. MaxPeriod
NonPositive == (0 - MaxPeriod) .. 0

Tables(rowSet, maxLen) == UNION {[1 .. n -> rowSet] : n \in 0 .. maxLen}

Args(symbol, period, rsi_period) ==
    [symbol |-> symbol, period |-> period, rsi_period |-> rsi_period]

InitOn(tables) ==
    /\ data \in tables
    /\ op = "idle"
    /\ args = Args(0, 0, 0)
    /\ ret = Return(Zero)
    /\ locals = NoLocals

AveragePrice(P) ==
    /\ op = "idle"
    /\ \E symbol \in Symbols, period \in P :
        /\ op' = "calculate_average_price"
        /\ args' = Args(symbol, period, 0)
        /\ ret' = calculate_average_price(symbol, data, period)
        /\ locals' = NoLocals
        /\ data' = data

BollingerBands(P) ==
    /\ op = "idle"
    /\ \E symbol \in Symbols, period \in P :
        /\ op' = "calculate_bollinger_bands"
        /\ args' = Args(symbol, period, 0)
        /\ ret' = calculate_bollinger_bands(symbol, data, period)
        /\ locals' = NoLocals
        /\ data' = data

LatestClose ==
    /\ op = "idle"
    /\ \E symbol \in Symbols :
        /\ op' = "get_latest_close"
        /\ args' = Args(symbol, 0, 0)
        /\ ret' = Return(get_latest_close(symbol, data))
        /\ locals' = NoLocals
        /\ data' = data

Rsi(P) ==
    /\ op = "idle"
    /\ \E symbol \in Symbols, period \in P :
        \E run \in {calculate_rsi_run(symbol, data, period)} :
            /\ op' = "calculate_rsi"
            /\ args' = Args(symbol, period, 0)
            /\ ret' = run.ret
            /\ locals' = run.locals
            /\ data' = run.data

Scan ==
    /\ op = "idle"
    /\ \E bollinger_bands_period \in Periods, rsi_period \in Periods :
        \E run \in {scan_for_opportunities_run(data, bollinger_bands_period, rsi_period)} :
            /\ op' = "scan_for_opportunities"
            /\ args' = Args(0, bollinger_bands_period, rsi_period)
            /\ ret' = run.ret
            /\ locals' = NoLocals
            /\ data' = run.data

Continue ==
    /\ op # "idle"
    /\ op' = "idle"
    /\ args' = Args(0, 0, 0)
    /\ ret' = Return(Zero)
    /\ locals' = NoLocals
    /\ data' = data

(***************************************************************************)
(* Row sets the specifications draw their tables from.                     *)
(***************************************************************************)
Row(symbol, close, date) == [symbol |-> symbol, close |-> close, date |-> date]

(* every kind of row, for the calls taken together *)
MixedRows ==
    {Row(1, Num(3), Iso(2)), Row(1, Num(1), Iso(1)), Row(1, Num(1), Absent),
     Row(1, Text, Absent), Row(1, Absent, Iso(1)),
     Row(2, Num(1), Iso(1)), Row(0, Num(1), Iso(1))}

Init == InitOn(Tables(MixedRows, MaxRows))

Next ==
    \/ AveragePrice(Periods)
    \/ BollingerBands(Periods)
    \/ LatestClose
    \/ Rsi(Periods)
    \/ Scan
    \/ Continue

Spec == Init /\ [][Next]_vars

(* closes of either sign, missing and unparseable closes, for the two
   window statistics *)
AverageRows ==
    {Row(1, c, Absent) : c \in {Absent, Text, Num(1), Num(2), Num(4), Num(0 - 3)}}
    \cup {Row(2, Num(1), Absent), Row(0, Num(1), Absent)}

InitAverage == InitOn(Tables(AverageRows, MaxRows))

NextAverage ==
    \/ AveragePrice(Periods)
    \/ BollingerBands(Periods)
    \/ Continue

SpecAverage == InitAverage /\ [][NextAverage]_vars

(* rows with and without a date, with a date that is no ISO date, with and
   without a parseable close *)
LatestRows ==
    {Row(1, c, d) : c \in {Text, Num(1), Num(2)}, d \in {Absent, Text, Iso(1), Iso(2)}}
    \cup {Row(1, Absent, Iso(2)), Row(2, Num(1), Iso(2)), Row(0, Num(1), Iso(2))}

InitLatest == InitOn(Tables(LatestRows, MaxRows))

NextLatest ==
    \/ LatestClose
    \/ Continue

SpecLatest == InitLatest /\ [][NextLatest]_vars

(* one symbol's series, dated or not *)
RsiRowSet ==
    {Row(1, Num(c), d) : c \in {1, 2, 3}, d \in {Absent, Iso(1), Iso(2)}}
    \cup {Row(1, Text, Absent), Row(1, Text, Iso(1))}

InitRsi == InitOn(Tables(RsiRowSet, MaxRows))

NextRsi ==
    \/ Rsi(Periods)
    \/ Continue

SpecRsi == InitRsi /\ [][NextRsi]_vars

(* series long enough for the sort to stop part of the way *)
SortRows == {Row(1, Num(c), d) : c \in {1, 2, 3}, d \in {Absent, Iso(1), Iso(2)}}

InitSort == InitOn(Tables(SortRows, MaxSortRows))

SpecSort == InitSort /\ [][NextRsi]_vars

(* two symbols that can both qualify, and a latest close of zero *)
ScanRows ==
    {Row(s, Num(1), Iso(2)) : s \in Symbols}
    \cup {Row(s, Num(3), Iso(1)) : s \in Symbols}
    \cup {Row(1, Num(0), Iso(2))}

InitScan == InitOn(Tables(ScanRows, MaxScanRows))

NextScan ==
    \/ Scan
    \/ Continue

SpecScan == InitScan /\ [][NextScan]_vars

(* the three period-taking calls with a period that is not positive *)
NextBadPeriod ==
    \/ AveragePrice(NonPositive)
    \/ BollingerBands(NonPositive)
    \/ Rsi(NonPositive)
    \/ Continue

SpecBadPeriod == Init /\ [][NextBadPeriod]_vars

(***************************************************************************)
(* Properties.  What a call should return is restated over the rows of the *)
(* table by their positions, without the loops of the program.  Exact      *)
(* arithmetic on rationals is written Q...; the F... operations round.     *)
(***************************************************************************)
(* denominators are powers of two, so the larger is a common one *)
QOver(x, d) == x.n * (d \div x.d)
QAdd(x, y) == [n |-> QOver(x, Max(x.d, y.d)) + QOver(y, Max(x.d, y.d)), d |-> Max(x.d, y.d)]
QSub(x, y) == [n |-> QOver(x, Max(x.d, y.d)) - QOver(y, Max(x.d, y.d)), d |-> Max(x.d, y.d)]
QAbs(x) == [n |-> Abs(x.n), d |-> x.d]
QTimes(k, x) == [n |-> k * x.n, d |-> x.d]
QEq(x, y) == QOver(x, Max(x.d, y.d)) = QOver(y, Max(x.d, y.d))
QLe(x, y) == QOver(x, Max(x.d, y.d)) <= QOver(y, Max(x.d, y.d))

(* positions of the rows of `symbol` whose close parses *)
Parseable(symbol) ==
    {i \in 1 .. Len(data) : data[i].symbol = symbol /\ data[i].close.k = "num"}

CloseAt(i) == Round(FromInt(data[i].close.v))

(* the last k positions of I *)
LastOf(I, k) == {i \in I : Cardinality({j \in I : j > i}) < k}

Last(I) == CHOOSE m \in I : \A j \in I : j <= m

RECURSIVE SumAt(_)
SumAt(I) ==
    IF I = {} THEN Zero ELSE FAdd(SumAt(I \ {Last(I)}), CloseAt(Last(I)))

RECURSIVE SquaresAt(_, _)
SquaresAt(I, avg) ==
    IF I = {} THEN Zero
    ELSE FAdd(SquaresAt(I \ {Last(I)}, avg),
              FMul(FSub(CloseAt(Last(I)), avg), FSub(CloseAt(Last(I)), avg)))

WindowMean(I, period) == FDiv(SumAt(LastOf(I, period)), FromInt(period))

WindowDeviation(I, period) ==
    FSqrt(FDiv(SquaresAt(LastOf(I, period), WindowMean(I, period)), FromInt(period)))

(* C2: calculate_average_price returns the sum of the last min(n, period)
   parseable closes of the symbol divided by period (not by the number of
   closes found), and 0.0 when the symbol has no parseable close. *)
AverageDividesByPeriod ==
    op = "calculate_average_price" =>
        IF Parseable(args.symbol) = {} THEN ret = Return(Zero)
        ELSE ret = Return(WindowMean(Parseable(args.symbol), args.period))

(* fewer closes than the period, and the quotient by period differs from
   the mean of the closes found *)
AverageOverShortWindow ==
    /\ op = "calculate_average_price"
    /\ Parseable(args.symbol) # {}
    /\ Cardinality(Parseable(args.symbol)) < args.period
    /\ ret = Return(WindowMean(Parseable(args.symbol), args.period))
    /\ ~QEq(ret.val, SumAt(Parseable(args.symbol)))

(* |upper - lower - 4 std_dev| <= u (|average + 2 std_dev| + |average - 2 std_dev|)
   for the unit roundoff u = 2^-MantissaBits *)
WidthWithinRounding(b) ==
    LET err    == QAbs(QSub(QSub(b.upper, b.lower), QTimes(4, b.std_dev)))
        scale  == QAdd(QAbs(QAdd(b.average, QTimes(2, b.std_dev))),
                       QAbs(QSub(b.average, QTimes(2, b.std_dev))))
    IN  QLe(QTimes(Pow2(MantissaBits), err), scale)

BandsFromWindow(b, I, period) ==
    IF I = {}
    THEN b = [average |-> Zero, std_dev |-> Zero, upper |-> Zero, lower |-> Zero]
    ELSE /\ b.average = WindowMean(I, period)
         /\ b.std_dev = WindowDeviation(I, period)
         /\ b.std_dev.n >= 0
         /\ b.upper = FAdd(b.average, FMul(FromInt(2), b.std_dev))
         /\ b.lower = FSub(b.average, FMul(FromInt(2), b.std_dev))
         /\ QLe(b.lower, b.average)
         /\ QLe(b.average, b.upper)

(* C8: calculate_bollinger_bands returns all zeros when the symbol has no
   parseable close; otherwise average and variance are taken over the last
   period closes with divisor period, std_dev is the square root of the
   variance and is not negative, upper and lower are the rounded results of
   average + 2 std_dev and average - 2 std_dev, lower <= average <= upper,
   and upper - lower equals 4 std_dev up to the rounding of those two
   results. *)
BandsUpToRounding ==
    op = "calculate_bollinger_bands" =>
        /\ ret.kind = "return"
        /\ BandsFromWindow(ret.val, Parseable(args.symbol), args.period)
        /\ WidthWithinRounding(ret.val)

(* a call whose band width is not exactly four deviations *)
BandsWidthRounded ==
    /\ op = "calculate_bollinger_bands"
    /\ ret.kind = "return"
    /\ Parseable(args.symbol) # {}
    /\ ret.val.std_dev.n > 0
    /\ ~QEq(QSub(ret.val.upper, ret.val.lower), QTimes(4, ret.val.std_dev))

(* C8 as stated: the same, with upper - lower = 4 std_dev exactly. *)
BandsWidthExact ==
    op = "calculate_bollinger_bands" =>
        /\ ret.kind = "return"
        /\ BandsFromWindow(ret.val, Parseable(args.symbol), args.period)
        /\ QEq(QSub(ret.val.upper, ret.val.lower), QTimes(4, ret.val.std_dev))

(* positions of the parseable rows of `symbol` that carry an ISO date *)
Dated(symbol) == {i \in Parseable(symbol) : data[i].date.k = "iso"}

(* the first position of D with the largest date *)
IsLatest(D, i) ==
    /\ i \in D
    /\ \A j \in D : data[j].date.v <= data[i].date.v
    /\ \A j \in D : j < i => data[j].date.v < data[i].date.v

(* C3: get_latest_close returns the close of the row with the largest valid
   date (the first such row) when a parseable row of the symbol carries a
   valid date, otherwise the close of the last parseable row of the symbol,
   and 0.0 when there is none. *)
LatestCloseByDate ==
    op = "get_latest_close" =>
        IF Dated(args.symbol) # {}
        THEN \E i \in Dated(args.symbol) :
                 IsLatest(Dated(args.symbol), i) /\ ret = Return(CloseAt(i))
        ELSE IF Parseable(args.symbol) # {}
        THEN ret = Return(CloseAt(Last(Parseable(args.symbol))))
        ELSE ret = Return(Zero)

(* the dated row wins although a row without a valid date, with another
   close, comes later *)
LatestCloseBeforeUndated ==
    /\ op = "get_latest_close"
    /\ \E i \in Dated(args.symbol) :
           /\ IsLatest(Dated(args.symbol), i)
           /\ ret = Return(CloseAt(i))
           /\ \E j \in Parseable(args.symbol) \ Dated(args.symbol) :
                  j > i /\ CloseAt(j) # CloseAt(i)

(* C6: calculate_rsi returns 0.0 whenever the symbol has fewer than
   period + 1 parseable closes. *)
RsiNeedsPeriodPlusOne ==
    (op = "calculate_rsi" /\ Cardinality(Parseable(args.symbol)) < args.period + 1)
        => ret = Return(Zero)

(* exactly period closes *)
RsiOnExactlyPeriod ==
    /\ op = "calculate_rsi"
    /\ Cardinality(Parseable(args.symbol)) = args.period
    /\ ret = Return(Zero)

(* The rows of `symbol` that carry a close are in chronological input
   order: none is dated, or all are and no date decreases. *)
Chronological(symbol) ==
    LET R == {i \in 1 .. Len(data) : data[i].symbol = symbol /\ data[i].close.k # "absent"}
    IN  \/ \A i \in R : data[i].date.k = "absent"
        \/ \A i \in R : /\ data[i].date.k = "iso"
                        /\ \A j \in R : i < j => data[i].date.v <= data[j].date.v

Increasing(I) == \A i, j \in I : i < j => RLt(CloseAt(i), CloseAt(j))
Decreasing(I) == \A i, j \in I : i < j => RLt(CloseAt(j), CloseAt(i))
Flat(I) == \A i, j \in I : CloseAt(i) = CloseAt(j)

(* C7: on a series of at least period + 1 closes in chronological input
   order calculate_rsi returns 100.0 if the closes strictly increase, 0.0
   if they strictly decrease and 0.0 if they are all equal. *)
RsiOfMonotoneSeries ==
    (/\ op = "calculate_rsi"
     /\ Chronological(args.symbol)
     /\ Cardinality(Parseable(args.symbol)) >= args.period + 1)
        => /\ Increasing(Parseable(args.symbol)) => ret = Return(FromInt(100))
           /\ Decreasing(Parseable(args.symbol)) => ret = Return(Zero)
           /\ Flat(Parseable(args.symbol)) => ret = Return(Zero)

(* a strictly increasing series long enough for a smoothing step *)
RsiOfRisingSmoothed ==
    /\ op = "calculate_rsi"
    /\ Chronological(args.symbol)
    /\ Cardinality(Parseable(args.symbol)) >= args.period + 2
    /\ Increasing(Parseable(args.symbol))
    /\ ret = Return(FromInt(100))

(* what the three indicators return for `symbol` on the table *)
Indicators(symbol) ==
    The({[latest_close |-> latest_close, bands |-> bands, rsi |-> rsi] :
         latest_close \in {get_latest_close(symbol, data)},
         bands \in {calculate_bollinger_bands(symbol, data, args.period)},
         rsi \in {calculate_rsi(symbol, data, args.rsi_period)}})

(* the oversold signal *)
Signal(ind) ==
    /\ ind.bands.kind = "return"
    /\ ind.rsi.kind = "return"
    /\ ind.latest_close.n > 0
    /\ QLe(ind.latest_close, ind.bands.val.lower)
    /\ ind.latest_close # ind.bands.val.lower
    /\ QLe(ind.rsi.val, FromInt(30))
    /\ ind.rsi.val # FromInt(30)

(* `symbol` is in the list exactly if it is in the table and gives the
   signal, and then with the values of the indicators *)
ListedIfSignal(out, symbol) ==
    \A ind \in {Indicators(symbol)} :
        /\ (\E i \in 1 .. Len(out) : out[i].symbol = symbol)
               <=> ((\E k \in 1 .. Len(data) : data[k].symbol = symbol) /\ Signal(ind))
        /\ \A i \in 1 .. Len(out) :
               out[i].symbol = symbol =>
                   out[i] = [symbol |-> symbol, latest_close |-> ind.latest_close,
                             lower_band |-> ind.bands.val.lower, rsi |-> ind.rsi.val]

(* C1: scan_for_opportunities returns the symbols present in the table that
   satisfy latest_close > 0, latest_close < lower band and rsi < 30, each
   once, in strictly ascending order, with the values the three indicators
   compute on the same table. *)
ScanListsSignals ==
    op = "scan_for_opportunities" =>
        /\ ret.kind = "return"
        /\ \A i, j \in 1 .. Len(ret.val) : i < j => ret.val[i].symbol < ret.val[j].symbol
        /\ \A i \in 1 .. Len(ret.val) : ret.val[i].symbol \in Symbols
        /\ \A symbol \in Symbols : ListedIfSignal(ret.val, symbol)

(* both symbols are listed, in ascending order, from a table whose first row
   is of the greater symbol *)
ScanListsBoth ==
    /\ op = "scan_for_opportunities"
    /\ ret.kind = "return"
    /\ Len(ret.val) = 2
    /\ ret.val[1].symbol < ret.val[2].symbol
    /\ data[1].symbol = ret.val[2].symbol

(* C4 as stated: calculate_average_price, calculate_bollinger_bands and
   calculate_rsi with a period of zero or less always end in an error. *)
BadPeriodRaises ==
    (/\ op \in {"calculate_average_price", "calculate_bollinger_bands", "calculate_rsi"}
     /\ args.period <= 0)
        => ret.kind = "raise"

(* the table without the rows whose close is missing or unparseable *)
Cleaned(table) == SelectSeq(table, LAMBDA entry : entry.close.k = "num")

ResultOn(table) ==
    CASE op = "calculate_average_price" ->
             calculate_average_price(args.symbol, table, args.period)
      [] op = "calculate_bollinger_bands" ->
             calculate_bollinger_bands(args.symbol, table, args.period)
      [] op = "get_latest_close" -> Return(get_latest_close(args.symbol, table))
      [] op = "calculate_rsi" -> calculate_rsi(args.symbol, table, args.period)
      [] op = "scan_for_opportunities" ->
             scan_for_opportunities(table, args.period, args.rsi_period)

(* C5 as stated: with a period of at least 1 each of the five calls returns
   without raising, and returns what it returns on the table from which
   every row with a missing or unparseable close is deleted. *)
BadRowsAreDeleted ==
    op # "idle" => (ret.kind = "return" /\ ret = ResultOn(Cleaned(data)))

(* C9: no call changes the table: every step leaves the rows, their fields
   and their order as they were. *)
TableIsNeverMutated == [][data' = data]_vars

(* calculate_rsi has sorted its rows into another order than the table's,
   which still holds the rows in input order *)
RsiSortedACopy ==
    /\ op = "calculate_rsi"
    /\ locals.sorted
    /\ locals.rows # SelectSeq(data, LAMBDA entry : Matches(entry, args.symbol))
    /\ \E i \in 1 .. Len(data) - 1 :
           /\ data[i].symbol = args.symbol /\ data[i + 1].symbol = args.symbol
           /\ data[i].date.k = "iso" /\ data[i + 1].date.k = "iso"
           /\ data[i].date.v > data[i + 1].date.v

Orderings(n) == {f \in [1 .. n -> 1 .. n] : \A i, j \in 1 .. n : f[i] = f[j] => i = j}

(* out is rows in ascending order of date, rows of equal date in the order
   they have in rows *)
IsStableSortOf(out, rows) ==
    /\ Len(out) = Len(rows)
    /\ \E f \in Orderings(Len(rows)) :
           /\ \A i \in 1 .. Len(rows) : out[i] = rows[f[i]]
           /\ \A i, j \in 1 .. Len(rows) :
                  i < j => /\ ~KeyIsNone(out[i]) /\ ~KeyIsNone(out[j])
                           /\ ~KeyLt(out[j], out[i])
                           /\ (KeyLt(out[i], out[j]) \/ f[i] < f[j])

(* C10 as stated: the rows calculate_rsi works on are the symbol's rows in
   stable ascending order of date when the sort succeeds, and in exactly
   the input order, closes included, when the sort fails. *)
SortIsAllOrNothing ==
    (op = "calculate_rsi" /\ locals.rows # <<>>) =>
        IF locals.sorted
        THEN IsStableSortOf(locals.rows,
                            SelectSeq(data, LAMBDA entry : Matches(entry, args.symbol)))
        ELSE /\ locals.rows = SelectSeq(data, LAMBDA entry : Matches(entry, args.symbol))
             /\ locals.prices = Prices(args.symbol, data)

(* C11 as stated: with more than period + 1 parseable closes the seed
   averages come from the period changes of the initial window of
   period + 1 closes, there are n - (period + 1) smoothing steps, and no
   change of the series is read both by the seed and by a smoothing step. *)
SeedAndSmoothingDisjoint ==
    (op = "calculate_rsi" /\ Len(locals.prices) > args.period + 1) =>
        /\ SeedWindowStart(locals.prices, args.period) = 0
        /\ Cardinality(SmoothChanges(locals.prices, args.period))
               = Len(locals.prices) - (args.period + 1)
        /\ SeedChanges(locals.prices, args.period)
               \cap SmoothChanges(locals.prices, args.period) = {}

=============================================================================
